---- MODULE Spec2Model ----
(***************************************************************************)
(* The cycle scheduler of src/a.py (function main): account start-up, the  *)
(* control loop with its eligibility pass, end-of-cycle sweep, rollover,   *)
(* action selection, dispatch, post-dispatch steps, pause and shutdown.    *)
(* The clock is in seconds; window bounds are in 1/Scale of a cycle.       *)
(***************************************************************************)
EXTENDS Integers, Sequences, FiniteSets, TLC

\* ---------------------------------------------------------------- bounds
\* loop iterations explored
MaxRounds == 2
\* wall-clock second (counted from a Sunday 00:00 local) at which the ledger
\* is built: Sunday 23:00
StartTime == 82800
\* invocations of a wrapped function whose behaviour is drawn, and the
\* largest max_retries drawn
MaxCalls == 3

\* ------------------------------------------------------ program constants
CYCLE_TIME == 30 * 3600
min_action_gap == 20 * 60
\* resolution in which window bounds (fractions of a cycle) are represented
Scale == 60 * 100

\* the accounts list (a two element sample of it), in list order
accounts == <<"acc1", "acc2">>
Accounts == {accounts[i] : i \in 1..Len(accounts)}

\* ledger keys, in the order of the lists the loops iterate over
PrimaryTypes_with_comment_likes == <<"tweets", "comments", "follows", "retweets", "tweet_analysis", "strategy", "quote_tweet", "comment_likes">>
PrimaryTypes == <<"tweets", "comments", "follows", "retweets", "tweet_analysis", "strategy", "quote_tweet">>
FallbackTypes == <<"tweets", "comments", "follows", "retweets", "tweet_analysis", "strategy", "quote_tweet", "comment_likes">>
GapTypes == <<"tweets", "comments", "follows", "retweets", "tweet_analysis", "strategy", "quote_tweet">>
LedgerTypes == {"tweets", "comments", "follows", "retweets", "tweet_analysis", "strategy", "quote_tweet", "comment_likes", "contest_tweet"}
Actions == {"tweet", "comment", "follow", "retweet", "tweet_analysis", "strategy", "quote_tweet", "comment_likes"}

Range(s) == {s[i] : i \in 1..Len(s)}

\* the if/elif chain that turns a ledger key into the action name appended
ActionName(action_type) ==
  CASE action_type = "tweets" -> "tweet"
    [] action_type = "comments" -> "comment"
    [] action_type = "follows" -> "follow"
    [] action_type = "retweets" -> "retweet"
    [] action_type = "tweet_analysis" -> "tweet_analysis"
    [] action_type = "strategy" -> "strategy"
    [] action_type = "quote_tweet" -> "quote_tweet"
    [] action_type = "comment_likes" -> "comment_likes"

\* the ledger key each dispatch branch updates
LedgerKey(action) ==
  CASE action = "tweet" -> "tweets"
    [] action = "comment" -> "comments"
    [] action = "follow" -> "follows"
    [] action = "retweet" -> "retweets"
    [] action = "tweet_analysis" -> "tweet_analysis"
    [] action = "strategy" -> "strategy"
    [] action = "quote_tweet" -> "quote_tweet"
    [] action = "comment_likes" -> "comment_likes"

\* ------------------------------------------------------- strings as text
\* Python strings are modelled as sequences of characters so that
\* str.replace is computed, not assumed.
Chars ==
  [ tweet |-> <<"t","w","e","e","t">>,
    tweets |-> <<"t","w","e","e","t","s">>,
    comment |-> <<"c","o","m","m","e","n","t">>,
    comments |-> <<"c","o","m","m","e","n","t","s">>,
    follow |-> <<"f","o","l","l","o","w">>,
    follows |-> <<"f","o","l","l","o","w","s">>,
    retweet |-> <<"r","e","t","w","e","e","t">>,
    retweets |-> <<"r","e","t","w","e","e","t","s">>,
    tweet_analysis |-> <<"t","w","e","e","t","_","a","n","a","l","y","s","i","s">>,
    strategy |-> <<"s","t","r","a","t","e","g","y">>,
    quote_tweet |-> <<"q","u","o","t","e","_","t","w","e","e","t">>,
    comment_likes |-> <<"c","o","m","m","e","n","t","_","l","i","k","e","s">> ]

\* str.replace(old, new): every non-overlapping occurrence, left to right
RECURSIVE Replace(_, _, _)
Replace(s, old, new) ==
  IF Len(s) < Len(old) THEN s
  ELSE IF SubSeq(s, 1, Len(old)) = old
       THEN new \o Replace(SubSeq(s, Len(old) + 1, Len(s)), old, new)
       ELSE <<s[1]>> \o Replace(Tail(s), old, new)

\* the value stored in account_last_actions for a dispatched action
LastActionKeyOf(action) ==
  Replace(Replace(Replace(Replace(Chars[action],
      Chars["tweet"], Chars["tweets"]),
      Chars["comment"], Chars["comments"]),
      Chars["follow"], Chars["follows"]),
      Chars["retweet"], Chars["retweets"])

LastActionKey == [action \in Actions |-> LastActionKeyOf(action)]

\* None in account_last_actions
None == <<>>

\* ---------------------------------------------------------- time windows
Min(a, b) == IF a < b THEN a ELSE b

create_time_windows_slot_late(num_windows, u, v) ==
  [i \in 1..num_windows |->
     LET start == i * (Scale \div num_windows) + u[i]
         end == start + v[i]
     IN <<start, IF end > Scale THEN Scale ELSE end>>]

\* create_time_windows with the random draws made explicit: u[i] is the
\* start offset drawn in window i, v[i] the length drawn (both in 1/Scale)
create_time_windows(num_windows, u, v) ==
  [i \in 1..num_windows |->
     LET start == (i - 1) * (Scale \div num_windows) + u[i]
         end == start + v[i]
     IN <<start, IF end > Scale THEN Scale ELSE end>>]

\* the draws of the random source sampled for window generation:
\* five windows, each starting 0.4 of a fifth into its fifth, 0.15 long
WindowsA == create_time_windows(5, [i \in 1..5 |-> (4 * (Scale \div 5)) \div 10], [i \in 1..5 |-> (15 * Scale) \div 100])
\* three windows, each starting 0.4 of a third into its third, 0.1 long
WindowsB == create_time_windows(3, [i \in 1..3 |-> (4 * (Scale \div 3)) \div 10], [i \in 1..3 |-> Scale \div 10])

\* window_start <= cycle_progress <= window_end for some window
in_time_window(windows, elapsed) ==
  \E i \in 1..Len(windows) :
     /\ windows[i][1] * CYCLE_TIME <= elapsed * Scale
     /\ elapsed * Scale <= windows[i][2] * CYCLE_TIME

\* ------------------------------------------------------- limits at start
InitialLimitRange ==
  [ tweets |-> <<4, 6>>, comments |-> <<8, 12>>, follows |-> <<6, 8>>,
    retweets |-> <<1, 2>>, tweet_analysis |-> <<2, 2>>, strategy |-> <<2, 2>>,
    quote_tweet |-> <<2, 3>>, comment_likes |-> <<2, 3>>, contest_tweet |-> <<0, 1>> ]

\* ------------------------------------------------- wall clock derivations
Hour(t) == (t \div 3600) % 24
Minute(t) == (t \div 60) % 60
\* time.strftime("%A") == "Tuesday"; day 0 of the clock is a Sunday
IsTuesday(t) == (t \div 86400) % 7 = 2
is_morning(h) == 6 <= h /\ h < 12
is_afternoon(h) == 12 <= h /\ h < 18
is_evening(h) == (18 <= h /\ h < 24) \/ (0 <= h /\ h < 6)

\* seconds that pass between two reads of the clock across a sleep: the
\* sleep itself plus the blocking worker calls of the round
Delays == {300, 3600}

\* seconds the start of one worker (driver launch and login) takes; the
\* cycle of every account has begun before the first worker is started.
\* 0 leaves the first pass at the start of the cycle, 100800 at 0.933 of it
StartupDelays == {0, 100800}

\* ------------------------------------------- outcomes of the capabilities
\* "true"/"false" are the returned booleans, "raise" an exception escaping
post_tweet_results == {"true", "false", "raise"}
perform_community_interactions_results == {"true", "false"}
perform_follow_operations_results == {"true", "false"}
perform_retweet_operations_results == {"true", "false", "raise"}
collect_and_analyze_tweets_results == {"true", "false"}
ai_driven_casino_strategy_results == {"true", "false"}
perform_quote_tweet_results == {"true", "false"}
like_post_comments_results == {"true", "false"}
unfollow_daily_users_results == {"true", "false"}
check_rate_limits_results == {"true", "false"}
\* post_contest_tweet calls self.post_tweet(..., image_path=...), a keyword
\* post_tweet does not take: the TypeError is caught and False returned
post_contest_tweet_results == {"false"}
\* TwitterBot(...) raising, or login() returning True / False
startup_results == {"ok", "login_false", "init_raise"}

capability_results(action) ==
  CASE action = "tweet" -> post_tweet_results
    [] action = "comment" -> perform_community_interactions_results
    [] action = "follow" -> perform_follow_operations_results
    [] action = "retweet" -> perform_retweet_operations_results
    [] action = "tweet_analysis" -> collect_and_analyze_tweets_results
    [] action = "strategy" -> ai_driven_casino_strategy_results
    [] action = "quote_tweet" -> perform_quote_tweet_results
    [] action = "comment_likes" -> like_post_comments_results

\* ------------------------------------------------------------------ state
VARIABLES
  pc,                   \* position of main
  now,                  \* the wall clock (time.time())
  rounds,               \* loop iterations completed
  start_i,              \* index of the start-up loop over accounts
  browser_instances,    \* accounts with a started worker
  count, limit, windows, last_action,   \* account_activities[a][type][...]
  day_flags,            \* morning_done / afternoon_done / evening_done
  unfollow_done, cycle_start,
  account_last_actions, \* key of the account's previous action
  eligible_accounts, pass_i, current_time,
  account, action, cycle_elapsed, current_hour,
  result,               \* outcome of the capability called by the dispatch
  exit_reason,          \* why the loop was left
  closed,               \* workers closed by the finally block
  prev_action,          \* history: action of the account's previous dispatch
  sweep_calls,          \* history: unfollow sweeps invoked in the cycle
  sweep_elapsed,        \* history: cycle time at the latest sweep
  last_record,          \* history: timestamp of the latest recorded action
  record_gap,           \* history: distance of the two latest records
  start_result,         \* history: how the start-up of each account ended
  close_failed,         \* history: workers whose driver.quit() raised in close()
  wpc,                  \* position inside the worker operation under study
  entry,                \* the worker operation invoked
  max_retries,          \* parameter of smart_retry
  behaviour,            \* what the wrapped function does at each invocation
  is_logged_in,         \* what check_login_status returns
  retries,              \* local of the smart_retry wrapper
  invocations,          \* history: calls of the wrapped function
  delays,               \* history: time.sleep back-off delays of the wrapper
  refreshes,            \* history: driver.refresh() calls of the wrapper
  outcome,              \* how the worker operation ended
  session_action,       \* the action argument of manage_session
  session_exists,       \* self.session_path.exists()
  raising,              \* the driver and file operations that raise
  login_buttons,        \* the login link is shown after the cookies are loaded
  loaded_probe,         \* the wait for the compose link after a session load
  fresh_steps,          \* safe_action calls of the login flow that succeed
  fresh_probe,          \* the wait for the compose link after the login flow
  browser_touched,      \* history: manage_session called into the driver
  events,               \* history: the steps login went through, with results
  cpc,                  \* position of a call of create_time_windows
  omitted,              \* the call leaves num_windows at its default None
  given,                \* the num_windows argument of the call
  randint_draw,         \* what random.randint(3, 5) returns
  u_draw, v_draw,       \* what the random.uniform calls of the loop return
  made                  \* the list the call returned

ledger == <<count, limit, windows, last_action, day_flags, unfollow_done, cycle_start>>
locals == <<eligible_accounts, pass_i, current_time, account, action, cycle_elapsed, current_hour, result>>
history == <<prev_action, sweep_calls, sweep_elapsed, last_record, record_gap>>
session == <<session_action, session_exists, raising, login_buttons, loaded_probe, fresh_steps,
             fresh_probe, browser_touched, events>>
retry == <<max_retries, behaviour, is_logged_in, retries, invocations, delays, refreshes>>
creation == <<cpc, omitted, given, randint_draw, u_draw, v_draw, made>>
worker == <<wpc, entry, max_retries, behaviour, is_logged_in, retries, invocations, delays,
            refreshes, outcome, session, creation>>
scheduler == <<pc, now, rounds, start_i, browser_instances, ledger, account_last_actions,
               locals, exit_reason, closed, history, start_result, close_failed>>
vars == <<scheduler, worker>>

NoFlags == [morning_done |-> FALSE, afternoon_done |-> FALSE, evening_done |-> FALSE]

\* the assignment of window draws to ledger keys that Init samples
WindowPlans ==
  { [t \in LedgerTypes |-> IF t \in {"retweets", "tweet_analysis", "strategy", "comment_likes", "contest_tweet"}
                           THEN WindowsA ELSE WindowsB] }

\* the draws of the limits that Init samples: index into the range, per account
LimitDraws == { [a \in Accounts |-> IF a = accounts[1] THEN 1 ELSE 2] }

\* state of main when the start-up loop is reached
AfterConstruction ==
  /\ pc = "startup"
  /\ now = StartTime
  /\ rounds = 0
  /\ start_i = 1
  /\ browser_instances = {}
  /\ count = [a \in Accounts |-> [t \in LedgerTypes |-> 0]]
  /\ \E draw \in LimitDraws :
       limit = [a \in Accounts |-> [t \in LedgerTypes |-> InitialLimitRange[t][draw[a]]]]
  /\ \E plan \in WindowPlans :
       windows = [a \in Accounts |-> plan]
  /\ last_action = [a \in Accounts |-> [t \in LedgerTypes |-> 0]]
  /\ day_flags = [a \in Accounts |-> NoFlags]
  /\ unfollow_done = [a \in Accounts |-> FALSE]
  /\ cycle_start = [a \in Accounts |-> StartTime]
  /\ account_last_actions = [a \in Accounts |-> None]
  /\ eligible_accounts = {}
  /\ pass_i = 0
  /\ current_time = 0
  /\ account = "none"
  /\ action = "none"
  /\ cycle_elapsed = 0
  /\ current_hour = 0
  /\ result = "none"
  /\ exit_reason = "none"
  /\ closed = {}
  /\ prev_action = [a \in Accounts |-> "none"]
  /\ sweep_calls = [a \in Accounts |-> 0]
  /\ sweep_elapsed = [a \in Accounts |-> 0]
  /\ last_record = [a \in Accounts |-> 0]
  /\ record_gap = [a \in Accounts |-> -1]
  /\ start_result = [a \in Accounts |-> "none"]
  /\ close_failed = {}

\* hours after StartTime at which each action type of the first account was
\* last recorded in the run described at QuotasSpent
SpentAt ==
  [ tweets |-> 22, comments |-> 23, follows |-> 12, retweets |-> 3, tweet_analysis |-> 10,
    strategy |-> 11, quote_tweet |-> 16, comment_likes |-> 8, contest_tweet |-> 0 ]

\* state of main at the top of the loop 24 hours into a run in which only
\* the first account logged in, every round took an hour and every dispatch
\* succeeded, in the order comment_likes, comment, tweet_analysis, retweet,
\* comment, follow (4), comment, follow (2), comment_likes, strategy,
\* tweet_analysis, strategy, follow, comment, tweet, quote_tweet,
\* quote_tweet, comment, tweet, comment, tweet, comment, tweet, comment:
\* every listed quota of the account is spent. From then on every round is
\* skipped; h is the hour of the run the state is taken at, swept tells
\* whether the unfollow sweep of hour 29 has been invoked (it returned True)
QuotasSpentAt(h, swept) ==
  /\ pc = "loop"
  /\ now = StartTime + h * 3600
  /\ rounds = 0
  /\ start_i = Len(accounts) + 1
  /\ browser_instances = {accounts[1]}
  /\ \E draw \in LimitDraws :
       /\ limit = [a \in Accounts |-> [t \in LedgerTypes |-> InitialLimitRange[t][draw[a]]]]
       /\ count = [a \in Accounts |-> [t \in LedgerTypes |->
                     IF a = accounts[1] /\ t \in Range(FallbackTypes) THEN limit[a][t] ELSE 0]]
  /\ \E plan \in WindowPlans :
       windows = [a \in Accounts |-> plan]
  /\ last_action = [a \in Accounts |-> [t \in LedgerTypes |->
                      IF a = accounts[1] /\ t \in Range(FallbackTypes)
                      THEN StartTime + SpentAt[t] * 3600 ELSE 0]]
  /\ day_flags = [a \in Accounts |->
                    IF a = accounts[1] THEN [NoFlags EXCEPT !.morning_done = TRUE, !.evening_done = TRUE]
                    ELSE NoFlags]
  /\ unfollow_done = [a \in Accounts |-> a = accounts[1] /\ swept]
  /\ cycle_start = [a \in Accounts |-> StartTime]
  /\ account_last_actions = [a \in Accounts |-> IF a = accounts[1] THEN LastActionKey["comment"] ELSE None]
  /\ eligible_accounts = {}
  /\ pass_i = 0
  /\ current_time = 0
  /\ account = "none"
  /\ action = "none"
  /\ cycle_elapsed = 0
  /\ current_hour = 0
  /\ result = "none"
  /\ exit_reason = "none"
  /\ closed = {}
  /\ prev_action = [a \in Accounts |-> IF a = accounts[1] THEN "comment" ELSE "none"]
  /\ sweep_calls = [a \in Accounts |-> IF a = accounts[1] /\ swept THEN 1 ELSE 0]
  /\ sweep_elapsed = [a \in Accounts |-> IF a = accounts[1] /\ swept THEN 29 * 3600 ELSE 0]
  /\ last_record = [a \in Accounts |-> IF a = accounts[1] THEN StartTime + 23 * 3600 ELSE 0]
  /\ record_gap = [a \in Accounts |-> IF a = accounts[1] THEN 3600 ELSE -1]
  /\ start_result = [a \in Accounts |-> IF a = accounts[1] THEN "ok" ELSE "login_false"]
  /\ close_failed = {}

\* the run 24 hours after its start
QuotasSpent == QuotasSpentAt(24, FALSE)

\* the same run 30 hours after its start, when the cycle of the account has
\* elapsed with its counts at their limits
CycleElapsed == QuotasSpentAt(30, TRUE)

\* no call of create_time_windows is under study
CreationIdle ==
  /\ cpc = "idle"
  /\ omitted = TRUE
  /\ given = 1
  /\ randint_draw = 3
  /\ u_draw = <<>>
  /\ v_draw = <<>>
  /\ made = <<>>

\* no session operation is under study
SessionIdle ==
  /\ session_action = "none"
  /\ session_exists = FALSE
  /\ raising = {}
  /\ login_buttons = FALSE
  /\ loaded_probe = "found"
  /\ fresh_steps = 4
  /\ fresh_probe = "found"
  /\ browser_touched = FALSE
  /\ events = <<>>

\* no decorated function and no recovery is under study
RetryIdle ==
  /\ wpc = "idle"
  /\ entry = "none"
  /\ max_retries = 3
  /\ behaviour = <<>>
  /\ is_logged_in = TRUE
  /\ retries = 0
  /\ invocations = 0
  /\ delays = 0
  /\ refreshes = 0
  /\ outcome = "none"

\* no worker operation is under study while the scheduler runs
WorkerIdle == RetryIdle /\ SessionIdle /\ CreationIdle

Init == (AfterConstruction \/ QuotasSpent \/ CycleElapsed) /\ WorkerIdle

\* active_accounts: the accounts with a worker, in list order
active_accounts == SelectSeq(accounts, LAMBDA a : a \in browser_instances)

\* ---------------------------------------------------------------- start-up
\* variant: every account put into browser_instances
started_always(r) == TRUE

\* "if bot.login(): browser_instances[...] = bot" inside try/except Exception
started(r) == r = "ok"

\* one turn of "for account in accounts: bot = TwitterBot(...); bot.login()"
StartAccount ==
  /\ pc = "startup"
  /\ \E r \in startup_results :
       /\ browser_instances' = IF started(r) THEN browser_instances \cup {accounts[start_i]}
                               ELSE browser_instances
       /\ start_result' = [start_result EXCEPT ![accounts[start_i]] = r]
  /\ \E d \in StartupDelays : now' = now + d
  /\ start_i' = start_i + 1
  /\ pc' = IF start_i = Len(accounts) THEN "loop" ELSE "startup"
  /\ UNCHANGED <<worker, close_failed, rounds, ledger, account_last_actions, locals, exit_reason, closed, history>>

\* ------------------------------------------------------------ control loop
\* "if not active_accounts: break"
NoActiveAccounts ==
  /\ pc = "loop"
  /\ rounds < MaxRounds
  /\ active_accounts = <<>>
  /\ exit_reason' = "no_active"
  /\ pc' = "closing"
  /\ UNCHANGED <<worker, start_result, close_failed, now, rounds, start_i, browser_instances, ledger, account_last_actions, locals, closed, history>>

\* top of an iteration: eligible_accounts = [], current_time = time.time()
BeginPass ==
  /\ pc = "loop"
  /\ rounds < MaxRounds
  /\ active_accounts # <<>>
  /\ eligible_accounts' = {}
  /\ current_time' = now
  /\ pass_i' = 1
  /\ pc' = "pass_sweep"
  /\ UNCHANGED <<worker, start_result, close_failed, now, rounds, start_i, browser_instances, ledger, account_last_actions,
                 account, action, cycle_elapsed, current_hour, result, exit_reason, closed, history>>

\* variant: the eligibility pass not consulting the per-cycle flag
pass_sweep_due_no_flag(a, elapsed) == elapsed * 100 >= CYCLE_TIME * 95

\* the condition under which the eligibility pass invokes the sweep
pass_sweep_due(a, elapsed) == elapsed * 100 >= CYCLE_TIME * 95 /\ ~unfollow_done[a]

\* the sweep of the eligibility pass for the account the pass is at
EligibilitySweep ==
  /\ pc = "pass_sweep"
  /\ LET a == active_accounts[pass_i]
         elapsed == current_time - cycle_start[a]
     IN IF pass_sweep_due(a, elapsed)
        THEN \E r \in unfollow_daily_users_results :
               /\ unfollow_done' = [unfollow_done EXCEPT ![a] = (r = "true")]
               /\ sweep_calls' = [sweep_calls EXCEPT ![a] = @ + 1]
               /\ sweep_elapsed' = [sweep_elapsed EXCEPT ![a] = elapsed]
        ELSE UNCHANGED <<unfollow_done, sweep_calls, sweep_elapsed>>
  /\ pc' = "pass_check"
  /\ UNCHANGED <<worker, start_result, close_failed, now, rounds, start_i, browser_instances, count, limit, windows, last_action,
                 day_flags, cycle_start, account_last_actions, locals, exit_reason, closed,
                 prev_action, last_record, record_gap>>

\* the rollover branch: its first statement reads the name "activity", which
\* is bound nowhere, so NameError leaves the ledger as it was and reaches
\* the "except Exception" of main
CycleRollover ==
  /\ pc = "pass_check"
  /\ current_time - cycle_start[active_accounts[pass_i]] >= CYCLE_TIME
  /\ exit_reason' = "exception"
  /\ pc' = "closing"
  /\ UNCHANGED <<worker, start_result, close_failed, now, rounds, start_i, browser_instances, ledger, account_last_actions, locals, closed, history>>

\* max of last_action over the seven listed keys
last_any_action(a) ==
  CHOOSE m \in {last_action[a][t] : t \in Range(GapTypes)} :
     \A t \in Range(GapTypes) : last_action[a][t] <= m

\* variant: the minimum-gap test reached whatever cycle_elapsed is
MinGapCheck_without_cycle_test ==
  /\ pc = "pass_check"
  /\ LET a == active_accounts[pass_i]
     IN eligible_accounts' =
             IF last_any_action(a) > 0 /\ current_time - last_any_action(a) < min_action_gap
             THEN eligible_accounts
             ELSE eligible_accounts \cup {a}
  /\ pass_i' = pass_i + 1
  /\ pc' = IF pass_i = Len(active_accounts) THEN "select" ELSE "pass_sweep"
  /\ UNCHANGED <<worker, start_result, close_failed, now, rounds, start_i, browser_instances, ledger, account_last_actions, current_time,
                 account, action, cycle_elapsed, current_hour, result, exit_reason, closed, history>>

\* the minimum-gap test that puts the account into eligible_accounts
MinGapCheck ==
  /\ pc = "pass_check"
  /\ LET a == active_accounts[pass_i]
     IN /\ current_time - cycle_start[a] < CYCLE_TIME
        /\ eligible_accounts' =
             IF last_any_action(a) > 0 /\ current_time - last_any_action(a) < min_action_gap
             THEN eligible_accounts
             ELSE eligible_accounts \cup {a}
  /\ pass_i' = pass_i + 1
  /\ pc' = IF pass_i = Len(active_accounts) THEN "select" ELSE "pass_sweep"
  /\ UNCHANGED <<worker, start_result, close_failed, now, rounds, start_i, browser_instances, ledger, account_last_actions, current_time,
                 account, action, cycle_elapsed, current_hour, result, exit_reason, closed, history>>

\* the locals of an iteration are dead once it ends: each is assigned again
\* before it is read
EndOfRound ==
  /\ eligible_accounts' = {}
  /\ pass_i' = 0
  /\ current_time' = 0
  /\ account' = "none"
  /\ action' = "none"
  /\ cycle_elapsed' = 0
  /\ current_hour' = 0
  /\ result' = "none"

\* "if not eligible_accounts: time.sleep(60); continue"
NoEligibleAccount ==
  /\ pc = "select"
  /\ eligible_accounts = {}
  /\ \E d \in Delays : now' = now + d
  /\ rounds' = rounds + 1
  /\ pc' = "loop"
  /\ EndOfRound
  /\ UNCHANGED <<worker, start_result, close_failed, start_i, browser_instances, ledger, account_last_actions, exit_reason, closed, history>>

\* --------------------------------------------------------------- selection
\* the day-part test applied to tweet_analysis in the primary loop
day_part_free(a, h) ==
  \/ is_morning(h) /\ ~day_flags[a].morning_done
  \/ is_afternoon(h) /\ ~day_flags[a].afternoon_done
  \/ is_evening(h) /\ ~day_flags[a].evening_done

\* variant: the primary loop without its limit check
primary_actions_no_limit(a, elapsed, h) ==
  {ActionName(t) : t \in {t \in Range(PrimaryTypes) :
      /\ ~(account_last_actions[a] = Chars[t])
      /\ (t = "tweet_analysis" => day_part_free(a, h))
      /\ in_time_window(windows[a][t], elapsed)}}

\* available_actions after the primary loop over the seven listed keys
primary_actions(a, elapsed, h) ==
  {ActionName(t) : t \in {t \in Range(PrimaryTypes) :
      /\ ~(count[a][t] >= limit[a][t])
      /\ ~(account_last_actions[a] = Chars[t])
      /\ (t = "tweet_analysis" => day_part_free(a, h))
      /\ in_time_window(windows[a][t], elapsed)}}

\* variant: the fallback loop without its limit check
fallback_actions_no_limit(a) ==
  {ActionName(t) : t \in {t \in Range(FallbackTypes) : account_last_actions[a] # Chars[t]}}

\* available_actions built by the fallback loop over the eight listed keys
fallback_actions(a) ==
  {ActionName(t) : t \in {t \in Range(FallbackTypes) :
      /\ count[a][t] < limit[a][t]
      /\ account_last_actions[a] # Chars[t]}}

\* variant: the candidate set without the fallback loop
available_actions_primary_only(a, elapsed, h) == primary_actions(a, elapsed, h)

\* available_actions as it stands at "if not available_actions: ... continue"
available_actions(a, elapsed, h) ==
  IF primary_actions(a, elapsed, h) = {} THEN fallback_actions(a)
  ELSE primary_actions(a, elapsed, h)

\* variant: no "if not available_actions" test, so that random.choice gets
\* the empty list and its IndexError ends the loop
SkipRound_choice_of_empty ==
  /\ pc = "select"
  /\ \E a \in eligible_accounts :
       available_actions(a, now - cycle_start[a], Hour(now)) = {}
  /\ exit_reason' = "exception"
  /\ pc' = "closing"
  /\ UNCHANGED <<worker, start_result, close_failed, now, rounds, start_i, browser_instances, ledger,
                 account_last_actions, locals, closed, history>>

\* an account is chosen and has nothing to do: sleep a minute, next round
SkipRound ==
  /\ pc = "select"
  /\ \E a \in eligible_accounts :
       available_actions(a, now - cycle_start[a], Hour(now)) = {}
  /\ \E d \in Delays : now' = now + d
  /\ rounds' = rounds + 1
  /\ pc' = "loop"
  /\ EndOfRound
  /\ UNCHANGED <<worker, start_result, close_failed, start_i, browser_instances, ledger, account_last_actions, exit_reason, closed, history>>

\* random.choice of the account and of the action, the update of
\* account_last_actions and the marking of the day-part flag
SelectAction ==
  /\ pc = "select"
  /\ \E a \in eligible_accounts :
     \E act \in available_actions(a, now - cycle_start[a], Hour(now)) :
       /\ account' = a
       /\ action' = act
       /\ cycle_elapsed' = now - cycle_start[a]
       /\ account_last_actions' = [account_last_actions EXCEPT ![a] = LastActionKey[act]]
       /\ day_flags' =
            IF act # "tweet_analysis" THEN day_flags
            ELSE IF is_morning(Hour(now)) THEN [day_flags EXCEPT ![a].morning_done = TRUE]
            ELSE IF is_afternoon(Hour(now)) THEN [day_flags EXCEPT ![a].afternoon_done = TRUE]
            ELSE IF is_evening(Hour(now)) THEN [day_flags EXCEPT ![a].evening_done = TRUE]
            ELSE day_flags
  /\ current_time' = now
  /\ current_hour' = Hour(now)
  /\ pc' = "dispatch"
  /\ UNCHANGED <<worker, start_result, close_failed, now, rounds, start_i, browser_instances, count, limit, windows, last_action,
                 unfollow_done, cycle_start, eligible_accounts, pass_i, result, exit_reason,
                 closed, history>>

\* ---------------------------------------------------------------- dispatch
\* follows_per_session = min(random.randint(2, 4), limit - count)
follows_per_session(a, drawn) == Min(drawn, limit[a]["follows"] - count[a]["follows"])

\* variant: the ledger assignments made whatever the capability did
records_always(act, r) == TRUE

\* whether the branch of the action reaches its two ledger assignments:
\* the strategy branch does not test what the capability returned
records(act, r) == IF act = "strategy" THEN r # "raise" ELSE r = "true"

\* the amount the branch adds to count
increment(a, act, drawn) == IF act = "follow" THEN follows_per_session(a, drawn) ELSE 1

\* variant: the dispatch without its "except Exception"
escapes_uncaught(act, r) == r = "raise"

\* whether an exception of the capability leaves the dispatch: the branches
\* are inside try/except Exception, which logs and goes on
escapes(act, r) == FALSE

\* the try block: the capability is called and, if the branch gets there,
\* count and last_action of the action's key are updated
Dispatch ==
  /\ pc = "dispatch"
  /\ \E r \in capability_results(action), drawn \in 2..4 :
       LET k == LedgerKey(action)
           a == account
       IN /\ (action # "follow" => drawn = 2)
          /\ result' = r
          /\ IF records(action, r)
             THEN /\ count' = [count EXCEPT ![a][k] = @ + increment(a, action, drawn)]
                  /\ last_action' = [last_action EXCEPT ![a][k] = current_time]
                  /\ last_record' = [last_record EXCEPT ![a] = current_time]
                  /\ record_gap' = [record_gap EXCEPT ![a] =
                                      IF last_record[a] = 0 THEN -1 ELSE current_time - last_record[a]]
             ELSE UNCHANGED <<count, last_action, last_record, record_gap>>
          /\ pc' = IF escapes(action, r) THEN "closing" ELSE "post_sweep"
          /\ exit_reason' = IF escapes(action, r) THEN "exception" ELSE exit_reason
  /\ prev_action' = [prev_action EXCEPT ![account] = action]
  /\ UNCHANGED <<worker, start_result, close_failed, now, rounds, start_i, browser_instances, limit, windows, day_flags, unfollow_done,
                 cycle_start, account_last_actions, eligible_accounts, pass_i, current_time, account,
                 action, cycle_elapsed, current_hour, closed,
                 sweep_calls, sweep_elapsed>>

\* ------------------------------------------------------ post-dispatch steps
\* variant: the step after the dispatch without its cycle-time condition
post_sweep_due_any_time(a, elapsed) == ~unfollow_done[a]

\* the condition under which the step after the dispatch invokes the sweep
post_sweep_due(a, elapsed) == elapsed * 1000 >= 933 * CYCLE_TIME /\ ~unfollow_done[a]

\* the sweep after the dispatch, for the selected account
PostDispatchSweep ==
  /\ pc = "post_sweep"
  /\ IF post_sweep_due(account, cycle_elapsed)
     THEN \E r \in unfollow_daily_users_results :
            /\ unfollow_done' = [unfollow_done EXCEPT ![account] = (r = "true")]
            /\ sweep_calls' = [sweep_calls EXCEPT ![account] = @ + 1]
            /\ sweep_elapsed' = [sweep_elapsed EXCEPT ![account] = cycle_elapsed]
     ELSE UNCHANGED <<unfollow_done, sweep_calls, sweep_elapsed>>
  /\ pc' = "contest"
  /\ UNCHANGED <<worker, start_result, close_failed, now, rounds, start_i, browser_instances, count, limit, windows, last_action,
                 day_flags, cycle_start, account_last_actions, locals, exit_reason, closed,
                 prev_action, last_record, record_gap>>

\* the condition of both contest blocks
contest_due(c) ==
  /\ cycle_elapsed * 10 >= 4 * CYCLE_TIME
  /\ c < 1
  /\ IsTuesday(now)

\* the two contest blocks; the cross retweet loop of the second one ends in
\* KeyError (no worker for the other account, or no 'url' in the ledger)
\* as soon as one other account is drawn
ContestTweet ==
  /\ pc = "contest"
  /\ \E r1 \in post_contest_tweet_results, rate \in check_rate_limits_results,
        r2 \in post_contest_tweet_results, others \in SUBSET (Accounts \ {account}) :
       LET c0 == count[account]["contest_tweet"]
           c1 == IF contest_due(c0) /\ r1 = "true" THEN c0 + 1 ELSE c0
           second == contest_due(c1) /\ rate = "true" /\ r2 = "true"
           c2 == IF second THEN c1 + 1 ELSE c1
       IN /\ (~contest_due(c0) => r1 = "false")
          /\ (~contest_due(c1) => rate = "false")
          /\ (~(contest_due(c1) /\ rate = "true") => r2 = "false")
          /\ (~second => others = {})
          /\ count' = [count EXCEPT ![account]["contest_tweet"] = c2]
          /\ IF others # {}
             THEN /\ exit_reason' = "exception"
                  /\ pc' = "closing"
             ELSE /\ pc' = "midnight"
                  /\ UNCHANGED exit_reason
  /\ UNCHANGED <<worker, start_result, close_failed, now, rounds, start_i, browser_instances, limit, windows, last_action, day_flags,
                 unfollow_done, cycle_start, account_last_actions, locals, closed, history>>

\* variant: the midnight step also regenerates the windows of tweet_analysis
MidnightReset_regenerating_windows ==
  /\ pc = "midnight"
  /\ day_flags' =
       IF Hour(now) = 0 /\ Minute(now) < 10
       THEN [a \in Accounts |-> IF a \in browser_instances THEN NoFlags ELSE day_flags[a]]
       ELSE day_flags
  /\ windows' =
       IF Hour(now) = 0 /\ Minute(now) < 10
       THEN [a \in Accounts |-> IF a \in browser_instances
                                 THEN [windows[a] EXCEPT !["tweet_analysis"] = WindowsB]
                                 ELSE windows[a]]
       ELSE windows
  /\ pc' = "pause"
  /\ UNCHANGED <<worker, start_result, close_failed, now, rounds, start_i, browser_instances, count, limit, last_action,
                 unfollow_done, cycle_start, account_last_actions, locals, exit_reason,
                 closed, history>>

\* the clearing of the day-part flags in the first ten minutes of a day
MidnightReset ==
  /\ pc = "midnight"
  /\ day_flags' =
       IF Hour(now) = 0 /\ Minute(now) < 10
       THEN [a \in Accounts |-> IF a \in browser_instances THEN NoFlags ELSE day_flags[a]]
       ELSE day_flags
  /\ pc' = "pause"
  /\ UNCHANGED <<worker, start_result, close_failed, now, rounds, start_i, browser_instances, count, limit, windows, last_action,
                 unfollow_done, cycle_start, account_last_actions, locals, exit_reason,
                 closed, history>>

\* the pause between two rounds
Pause ==
  /\ pc = "pause"
  /\ \E d \in Delays : now' = now + d
  /\ rounds' = rounds + 1
  /\ pc' = "loop"
  /\ EndOfRound
  /\ UNCHANGED <<worker, start_result, close_failed, start_i, browser_instances, ledger, account_last_actions, exit_reason,
                 closed, history>>

\* ---------------------------------------------------------------- shutdown
\* the place where the model lets KeyboardInterrupt arrive: in a sleep
InterruptPoints == {"pause"}

KeyboardInterrupt ==
  /\ pc \in InterruptPoints
  /\ exit_reason' = "interrupt"
  /\ pc' = "closing"
  /\ UNCHANGED <<worker, start_result, close_failed, now, rounds, start_i, browser_instances, ledger, account_last_actions, locals, closed, history>>

\* variant: the finally block left at the first close() that fails
close_invoked_until_failure(failing) ==
  {accounts[i] : i \in {i \in 1..Len(accounts) :
      /\ accounts[i] \in browser_instances
      /\ \A j \in 1..(i - 1) : accounts[j] \notin failing}}

\* the workers close() is invoked on, given those whose driver.quit() raises:
\* close() catches the exception itself and the loop wraps each call in try
close_invoked(failing) == browser_instances

\* the finally block: bot.close() for every worker, each in its own try;
\* close() itself catches what driver.quit() raises; then main returns
CloseSessions ==
  /\ pc = "closing"
  /\ \E failing \in SUBSET browser_instances :
       /\ close_failed' = failing
       /\ closed' = close_invoked(failing)
  /\ pc' = "done"
  /\ UNCHANGED <<worker, start_result, now, rounds, start_i, browser_instances, ledger, account_last_actions, locals,
                 exit_reason, history>>

Next ==
  \/ StartAccount
  \/ NoActiveAccounts
  \/ BeginPass
  \/ EligibilitySweep
  \/ CycleRollover
  \/ MinGapCheck
  \/ NoEligibleAccount
  \/ SkipRound
  \/ SelectAction
  \/ Dispatch
  \/ PostDispatchSweep
  \/ ContestTweet
  \/ MidnightReset
  \/ Pause
  \/ KeyboardInterrupt
  \/ CloseSessions

Spec == Init /\ [][Next]_vars

\* ------------------------------------------------------- worker operations
\* what one invocation of a function does: return True, return False, raise
Outcomes == {"true", "false", "raise"}

\* the behaviours of a decorated function over its first MaxCalls invocations
Behaviours == [1..MaxCalls -> Outcomes]

\* the body of login is one try/except Exception that returns on every
\* path, and so is check_login_status: neither raises
login_behaviours == [1..MaxCalls -> {"true", "false"}]

\* a worker operation is entered while main is at its start-up loop: either
\* a function decorated with smart_retry is called, or
\* recover_from_session_error is (login is decorated with the default
\* max_retries)
WorkerInit ==
  /\ AfterConstruction
  /\ entry \in {"decorated", "recover"}
  /\ wpc = IF entry = "decorated" THEN "wrapper_loop" ELSE "recover_check"
  /\ max_retries \in 0..MaxCalls
  /\ behaviour \in Behaviours
  /\ is_logged_in \in BOOLEAN
  /\ entry = "decorated" => is_logged_in
  /\ entry = "recover" => (max_retries = 3 /\ behaviour \in login_behaviours)
  /\ retries = 0
  /\ invocations = 0
  /\ delays = 0
  /\ refreshes = 0
  /\ outcome = "none"
  /\ SessionIdle
  /\ CreationIdle

\* "while retries < max_retries:"; a loop that is not entered lets the
\* wrapper return None
WrapperLoop ==
  /\ wpc = "wrapper_loop"
  /\ IF retries < max_retries
     THEN /\ wpc' = "wrapper_call"
          /\ UNCHANGED outcome
     ELSE /\ wpc' = IF entry = "recover" THEN "recover_return" ELSE "done"
          /\ outcome' = IF entry = "recover" THEN outcome ELSE "none_returned"
  /\ UNCHANGED <<scheduler, session, creation, entry, max_retries, behaviour, is_logged_in, retries, invocations,
                 delays, refreshes>>

\* "try: return func(self, *args, **kwargs)"
WrapperCall ==
  /\ wpc = "wrapper_call"
  /\ invocations < MaxCalls
  /\ invocations' = invocations + 1
  /\ LET r == behaviour[invocations + 1]
     IN IF r = "raise"
        THEN /\ wpc' = "wrapper_except"
             /\ UNCHANGED outcome
        ELSE IF entry = "recover"
        THEN /\ wpc' = "recover_return"
             /\ UNCHANGED outcome
        ELSE /\ wpc' = "done"
             /\ outcome' = r
  /\ UNCHANGED <<scheduler, session, creation, entry, max_retries, behaviour, is_logged_in, retries, delays, refreshes>>

\* "except Exception": retries += 1, the back-off sleep, and the refresh
\* once retries >= max_retries / 2
WrapperExcept ==
  /\ wpc = "wrapper_except"
  /\ retries' = retries + 1
  /\ delays' = delays + 1
  /\ refreshes' = IF 2 * (retries + 1) >= max_retries THEN refreshes + 1 ELSE refreshes
  /\ wpc' = "wrapper_raise"
  /\ UNCHANGED <<scheduler, session, creation, entry, max_retries, behaviour, is_logged_in, invocations, outcome>>

\* the statement after the try statement, inside the while body:
\* "raise Exception(... deneme sonrasinda da basarisiz oldu)"
WrapperRaise ==
  /\ wpc = "wrapper_raise"
  /\ entry = "decorated"
  /\ outcome' = "raised"
  /\ wpc' = "done"
  /\ UNCHANGED <<scheduler, session, creation, entry, max_retries, behaviour, is_logged_in, retries, invocations,
                 delays, refreshes>>

\* recover_from_session_error: "is_logged_in = self.check_login_status()",
\* then "return True" or "self.login()"
RecoverCheck ==
  /\ wpc = "recover_check"
  /\ IF is_logged_in
     THEN /\ outcome' = "true"
          /\ wpc' = "done"
     ELSE /\ wpc' = "wrapper_loop"
          /\ UNCHANGED outcome
  /\ UNCHANGED <<scheduler, session, creation, entry, max_retries, behaviour, is_logged_in, retries, invocations,
                 delays, refreshes>>

\* recover_from_session_error after "self.login()": the value login returned
\* is dropped and "return True" follows
RecoverReturn ==
  /\ wpc = "recover_return"
  /\ outcome' = "true"
  /\ wpc' = "done"
  /\ UNCHANGED <<scheduler, session, creation, entry, max_retries, behaviour, is_logged_in, retries, invocations,
                 delays, refreshes>>

WorkerNext ==
  \/ WrapperLoop
  \/ WrapperCall
  \/ WrapperExcept
  \/ WrapperRaise
  \/ RecoverCheck
  \/ RecoverReturn

WorkerSpec == WorkerInit /\ [][WorkerNext]_vars

\* ------------------------------------------------------ session and login
MaxFaults == 2

\* the calls of manage_session and of the login flow that can raise
SessionOps == {"get_cookies", "open_wb", "dump", "exists", "get", "load", "refresh",
               "find_elements", "login_page"}
Faults == {f \in SUBSET SessionOps : Cardinality(f) <= MaxFaults}

\* what a wait.until(presence_of_element_located(...)) does
ProbeResults == {"found", "timeout", "raise"}

manage_session_body_no_exists_test(act, exists, raises, buttons) ==
  IF act = "save"
  THEN IF {"get_cookies", "open_wb", "dump"} \cap raises # {} THEN "raise" ELSE "true"
  ELSE IF act = "load"
  THEN IF {"exists", "get", "load", "refresh"} \cap raises # {} THEN "raise"
       ELSE IF "find_elements" \in raises THEN "true"
       ELSE IF buttons THEN "false" ELSE "true"
  ELSE "none"

\* the statements inside the try block of manage_session: the value they
\* return, "none" when the function falls off its end, "raise" when a call
\* raises outside the inner try
manage_session_body(act, exists, raises, buttons) ==
  IF act = "save"
  THEN IF {"get_cookies", "open_wb", "dump"} \cap raises # {} THEN "raise" ELSE "true"
  ELSE IF act = "load"
  THEN IF "exists" \in raises THEN "raise"
       ELSE IF ~exists THEN "false"
       ELSE IF {"get", "load", "refresh"} \cap raises # {} THEN "raise"
       ELSE IF "find_elements" \in raises THEN "true"
       ELSE IF buttons THEN "false" ELSE "true"
  ELSE "none"

\* manage_session: "except Exception as e: ... return False" around the body
manage_session(act, exists, raises, buttons) ==
  LET r == manage_session_body(act, exists, raises, buttons)
  IN IF r = "raise" THEN "false" ELSE r

\* manage_session reaches a call on self.driver: get_cookies() is the first
\* call of a save, get() follows the existence test of a load
touches_browser(act, exists, raises) ==
  \/ act = "save"
  \/ act = "load" /\ "exists" \notin raises /\ exists

\* the session file after manage_session: open(..., "wb") creates it
session_file_after(act, exists, raises) ==
  \/ exists
  \/ act = "save" /\ {"get_cookies", "open_wb"} \cap raises = {}

\* manage_session or the body of login is entered on a bot whose start-up
\* has not happened yet
SessionInit ==
  /\ AfterConstruction
  /\ entry \in {"manage_session", "login"}
  /\ wpc = IF entry = "manage_session" THEN "manage_session" ELSE "login_load"
  /\ max_retries = 3
  /\ behaviour = <<>>
  /\ is_logged_in = TRUE
  /\ retries = 0
  /\ invocations = 0
  /\ delays = 0
  /\ refreshes = 0
  /\ outcome = "none"
  /\ session_action \in {"save", "load", "other"}
  /\ entry = "login" => session_action = "load"
  /\ session_exists \in BOOLEAN
  /\ raising \in Faults
  /\ login_buttons \in BOOLEAN
  /\ loaded_probe \in ProbeResults
  /\ fresh_steps \in 0..4
  /\ fresh_probe \in ProbeResults
  /\ entry = "manage_session" => (loaded_probe = "found" /\ fresh_steps = 4 /\ fresh_probe = "found")
  /\ browser_touched = FALSE
  /\ events = <<>>
  /\ CreationIdle

inputs == <<session_action, raising, login_buttons, loaded_probe, fresh_steps, fresh_probe>>

\* a call of manage_session(action)
ManageSession ==
  /\ wpc = "manage_session"
  /\ outcome' = manage_session(session_action, session_exists, raising, login_buttons)
  /\ browser_touched' = touches_browser(session_action, session_exists, raising)
  /\ session_exists' = session_file_after(session_action, session_exists, raising)
  /\ events' = Append(events, <<session_action, outcome'>>)
  /\ wpc' = "done"
  /\ UNCHANGED <<scheduler, creation, entry, retry, inputs>>

after_load_always_fresh(r) == "login_fresh"

\* "if self.manage_session('load'):" enters the logged-in probe; a false
\* result goes on to the login flow
after_load(r) == IF r = "true" THEN "login_probe" ELSE "login_fresh"

\* login: "if self.manage_session('load'):"
LoginLoad ==
  /\ wpc = "login_load"
  /\ LET r == manage_session("load", session_exists, raising, login_buttons)
     IN /\ events' = Append(events, <<"load", r>>)
        /\ wpc' = after_load(r)
  /\ browser_touched' = touches_browser("load", session_exists, raising)
  /\ UNCHANGED <<scheduler, creation, entry, retry, inputs, session_exists, outcome>>

\* login: the wait for the compose link after the load; "return True" when
\* found, the login flow after a TimeoutException, and the outer "except
\* Exception: return False" for any other exception
LoginProbe ==
  /\ wpc = "login_probe"
  /\ events' = Append(events, <<"probe", loaded_probe>>)
  /\ CASE loaded_probe = "found" -> outcome' = "true" /\ wpc' = "done"
       [] loaded_probe = "timeout" -> wpc' = "login_fresh" /\ UNCHANGED outcome
       [] loaded_probe = "raise" -> outcome' = "false" /\ wpc' = "done"
  /\ UNCHANGED <<scheduler, creation, entry, retry, inputs, session_exists, browser_touched>>

\* login: the login page and the four safe_action steps, each of which
\* ends the login with "return False" when it fails
LoginFresh ==
  /\ wpc = "login_fresh"
  /\ IF "login_page" \in raising
     THEN /\ events' = Append(events, <<"fresh", "raise">>)
          /\ outcome' = "false"
          /\ wpc' = "done"
     ELSE IF fresh_steps < 4
     THEN /\ events' = Append(events, <<"fresh", "step_failed">>)
          /\ outcome' = "false"
          /\ wpc' = "done"
     ELSE /\ events' = Append(events, <<"fresh", "submitted">>)
          /\ wpc' = "login_fresh_probe"
          /\ UNCHANGED outcome
  /\ browser_touched' = TRUE
  /\ UNCHANGED <<scheduler, creation, entry, retry, inputs, session_exists>>

\* login: the wait for the compose link after the login flow; a
\* TimeoutException and any other exception both end in "return False"
LoginFreshProbe ==
  /\ wpc = "login_fresh_probe"
  /\ events' = Append(events, <<"fresh_probe", fresh_probe>>)
  /\ IF fresh_probe = "found"
     THEN /\ wpc' = "login_save"
          /\ UNCHANGED outcome
     ELSE /\ outcome' = "false"
          /\ wpc' = "done"
  /\ UNCHANGED <<scheduler, creation, entry, retry, inputs, session_exists, browser_touched>>

\* login: "self.manage_session('save')", whose result is dropped, then
\* "return True"
LoginSave ==
  /\ wpc = "login_save"
  /\ events' = Append(events, <<"save", manage_session("save", session_exists, raising, login_buttons)>>)
  /\ session_exists' = session_file_after("save", session_exists, raising)
  /\ outcome' = "true"
  /\ wpc' = "done"
  /\ UNCHANGED <<scheduler, creation, entry, retry, inputs, browser_touched>>

SessionNext ==
  \/ ManageSession
  \/ LoginLoad
  \/ LoginProbe
  \/ LoginFresh
  \/ LoginFreshProbe
  \/ LoginSave

SessionSpec == SessionInit /\ [][SessionNext]_vars

\* ------------------------------------------------- window generation
MaxWindows == 5

\* random.uniform(0, day_fraction * 0.4): the two ends and the middle of
\* the range (Scale is a multiple of 10 * n for every n up to MaxWindows + 1)
UDraws_whole_slot(n) == {0, (Scale \div n) \div 2, Scale \div n}

UDraws(n) == {0, (2 * (Scale \div n)) \div 10, (4 * (Scale \div n)) \div 10}

\* random.uniform(0.1, 0.15): the two ends of the range
VDraws == {Scale \div 10, (15 * Scale) \div 100}

window_count_default(is_omitted, n, r) == r

\* "if num_windows is None: num_windows = random.randint(3, 5)"
window_count(is_omitted, n, r) == IF is_omitted THEN r ELSE n

\* a call of create_time_windows with its argument and the values its
\* random draws are going to return
WindowInit ==
  /\ AfterConstruction
  /\ RetryIdle
  /\ SessionIdle
  /\ cpc = "call"
  /\ omitted \in BOOLEAN
  /\ given \in 1..MaxWindows
  /\ randint_draw \in 3..5
  /\ omitted => given = 1
  /\ ~omitted => randint_draw = 3
  /\ u_draw \in [1..window_count(omitted, given, randint_draw) ->
                   UDraws(window_count(omitted, given, randint_draw))]
  /\ v_draw \in [1..window_count(omitted, given, randint_draw) -> VDraws]
  /\ made = <<>>

\* the call runs to its "return windows"
CreateTimeWindows ==
  /\ cpc = "call"
  /\ made' = create_time_windows(window_count(omitted, given, randint_draw), u_draw, v_draw)
  /\ cpc' = "returned"
  /\ UNCHANGED <<scheduler, wpc, entry, retry, outcome, session, omitted, given, randint_draw,
                 u_draw, v_draw>>

WindowNext == CreateTimeWindows

WindowSpec == WindowInit /\ [][WindowNext]_vars

\* ------------------------------------------------------------- properties
elapsed_of(a) == current_time - cycle_start[a]

\* C11: with max_retries = 3, a wrapped function that raises on its first two
\* invocations and returns True on the third makes the wrapper return True
\* after exactly 3 invocations and 2 delays, with a refresh before the third
\* (the claim as stated; the code violates it).
C11_TwoFailuresThenSuccess ==
  (/\ wpc = "done"
   /\ entry = "decorated"
   /\ max_retries = 3
   /\ behaviour[1] = "raise" /\ behaviour[2] = "raise" /\ behaviour[3] = "true")
    => (outcome = "true" /\ invocations = 3 /\ delays = 2 /\ refreshes >= 1)

\* C12: the wrapper raises its terminal failure only after max_retries
\* invocations that all raised (the claim as stated; the code violates it).
C12_TerminalOnlyAfterMaxRetries ==
  (wpc = "done" /\ outcome = "raised")
    => (/\ invocations = max_retries
        /\ \A i \in 1..max_retries : behaviour[i] = "raise")

\* C13: an exception raised by the dispatched capability is caught: the
\* round goes on through the steps after the dispatch to the pause, the loop
\* is left afterwards only by an interrupt, and the set of active accounts
\* does not change once the loop runs.
C13_DispatchExceptionCaught ==
  /\ [](result = "raise" =>
          /\ pc \in {"post_sweep", "contest", "midnight", "pause", "closing", "done"}
          /\ exit_reason \in {"none", "interrupt"}
          /\ (pc \in {"closing", "done"} <=> exit_reason = "interrupt"))
  /\ [][pc # "startup" => browser_instances' = browser_instances]_vars

\* the pause of a round whose dispatched capability raised
C13_Witness ==
  /\ pc = "pause"
  /\ result = "raise"
  /\ account \in browser_instances

\* the action types of an account that are under their limit and differ from
\* the action of its previous dispatch
under_limit_not_previous(a) ==
  {act \in Actions : count[a][LedgerKey(act)] < limit[a][LedgerKey(act)] /\ act # prev_action[a]}

\* C14: when the primary set of an account is empty the candidate set is
\* exactly the action types under their limit that are not the account's
\* previous action, and otherwise it is the primary set (the claim as stated;
\* the code violates it).
C14_FallbackExact ==
  pc = "select" =>
    \A a \in eligible_accounts :
      LET elapsed == now - cycle_start[a]
      IN IF primary_actions(a, elapsed, Hour(now)) = {}
         THEN available_actions(a, elapsed, Hour(now)) = under_limit_not_previous(a)
         ELSE available_actions(a, elapsed, Hour(now)) = primary_actions(a, elapsed, Hour(now))

\* C15: an account that has an action type under its limit other than its
\* previous action has a non-empty candidate set whatever its windows are,
\* and a round with an eligible account is skipped only if some eligible
\* account has no such action type.
C15_UnderLimitIsDispatched ==
  /\ [](pc = "select" =>
          \A a \in eligible_accounts :
            under_limit_not_previous(a) # {}
              => available_actions(a, now - cycle_start[a], Hour(now)) # {})
  /\ [][(pc = "select" /\ eligible_accounts # {} /\ pc' = "loop")
          => \E a \in eligible_accounts : under_limit_not_previous(a) = {}]_vars

\* an action was selected for an account none of whose windows holds the
\* current cycle fraction
C15_Witness ==
  /\ pc = "dispatch"
  /\ \A t \in Range(PrimaryTypes) : ~in_time_window(windows[account][t], cycle_elapsed)

\* every action type the selection loops over is at its limit
all_spent(a) == \A t \in Range(FallbackTypes) : count[a][t] = limit[a][t]

\* C16: an account whose action types are all at their limit is not
\* dispatched, and the round that finds such an account selected ends
\* without changing any count, last_action or previous-action marker and
\* without leaving the loop: the next round follows.
C16_AllSpentSkipsRound ==
  [][pc = "select" =>
       /\ pc' \in {"dispatch", "loop"}
       /\ (pc' = "dispatch" => ~all_spent(account'))
       /\ ((pc' = "loop" /\ \E a \in eligible_accounts : all_spent(a)) =>
             /\ count' = count
             /\ last_action' = last_action
             /\ account_last_actions' = account_last_actions
             /\ browser_instances' = browser_instances
             /\ exit_reason' = "none"
             /\ rounds' = rounds + 1)]_vars

\* the loop after a round skipped for an account with every quota spent
C16_Witness ==
  /\ pc = "loop"
  /\ rounds >= 1
  /\ exit_reason = "none"
  /\ \E a \in browser_instances : all_spent(a)

\* C17: an action type is in the primary set of an account if and only if
\* its count is under its limit, the cycle fraction lies in one of its
\* windows and it is not the account's previous action, for every action
\* type, comment_likes and tweet_analysis included (the claim as stated; the
\* code violates it).
C17_PrimaryExact ==
  pc = "select" =>
    \A a \in eligible_accounts : \A act \in Actions :
      act \in primary_actions(a, now - cycle_start[a], Hour(now))
        <=> (/\ count[a][LedgerKey(act)] < limit[a][LedgerKey(act)]
             /\ in_time_window(windows[a][LedgerKey(act)], now - cycle_start[a])
             /\ act # prev_action[a])

\* C18: an account whose worker construction raised or whose login did not
\* return True is never in the active pool, never eligible, never selected
\* and never closed, while every account whose start-up succeeded is in the
\* pool once the loop runs.
C18_FailedStartNeverActive ==
  /\ \A a \in Accounts :
       start_result[a] \in {"login_false", "init_raise"} =>
         /\ a \notin browser_instances
         /\ a \notin eligible_accounts
         /\ account # a
         /\ a \notin closed
  /\ pc # "startup" =>
       \A a \in Accounts : start_result[a] = "ok" => a \in browser_instances

\* an action is dispatched for one account after the start-up of another
\* account failed
C18_Witness ==
  /\ pc = "dispatch"
  /\ start_result[account] = "ok"
  /\ \E a \in Accounts : start_result[a] \in {"login_false", "init_raise"}

\* C19: whatever ended the loop (interrupt, no active account, exception),
\* main goes through the closing step, and when it has returned close() has
\* been invoked on every active worker, also when closing some of them
\* failed.
C19_AllClosedOnExit ==
  /\ exit_reason # "none" => pc \in {"closing", "done"}
  /\ pc = "done" =>
       /\ exit_reason \in {"interrupt", "no_active", "exception"}
       /\ closed = browser_instances
       /\ close_failed \subseteq closed

\* main has returned after closing two workers, the close of one of which
\* failed
C19_Witness ==
  /\ pc = "done"
  /\ close_failed # {}
  /\ close_failed # browser_instances
  /\ closed = browser_instances

\* C21: manage_session never raises; a load on an account without a session
\* file returns False and makes no call on the driver
C21_SessionNeverRaises ==
  (entry = "manage_session" /\ wpc = "done") =>
    /\ outcome \in {"true", "false", "none"}
    /\ \A i \in 1..Len(events) :
         (events[i][1] = "load" /\ ~session_exists) => (outcome = "false" /\ ~browser_touched)

C21_Witness ==
  /\ entry = "manage_session"
  /\ wpc = "done"
  /\ session_action = "load"
  /\ ~session_exists
  /\ raising # {}
  /\ outcome = "false"

\* C22: login starts with the session load; the login flow is entered only
\* after a load that returned False or after a logged-in probe that timed
\* out; the session is saved only after the login flow was submitted and its
\* logged-in probe found the compose link
C22_FreshLoginOnlyAfterFailedRestore ==
  entry = "login" =>
    /\ (wpc # "login_load") => (Len(events) >= 1 /\ events[1][1] = "load")
    /\ \A i \in 1..Len(events) :
         /\ events[i][1] = "fresh" =>
              \/ i = 2 /\ events[1] = <<"load", "false">>
              \/ i = 3 /\ events[1] = <<"load", "true">> /\ events[2] = <<"probe", "timeout">>
         /\ events[i][1] = "save" =>
              /\ i > 2
              /\ events[i - 1] = <<"fresh_probe", "found">>
              /\ events[i - 2] = <<"fresh", "submitted">>

C22_Witness ==
  /\ entry = "login"
  /\ wpc = "done"
  /\ outcome = "true"
  /\ Len(events) = 5
  /\ events[2] = <<"probe", "timeout">>
  /\ events[5][1] = "save"

\* C23: every window returned by create_time_windows has
\* 0 <= start < end <= 1, and the list has num_windows windows when the
\* argument is given and 3 to 5 windows when it is omitted
C23_WindowsWithinCycle ==
  cpc = "returned" =>
    /\ \A k \in 1..Len(made) : 0 <= made[k][1] /\ made[k][1] < made[k][2] /\ made[k][2] <= Scale
    /\ ~omitted => Len(made) = given
    /\ omitted => Len(made) \in 3..5

C23_Witness ==
  /\ cpc = "returned"
  /\ omitted
  /\ Len(made) = 4
  /\ made[4][2] = Scale

\* C24: in a list of 3 to 5 windows every window is between 0.10 and 0.15
\* long, the window whose end was clamped to 1.0 included
C24_WindowLength ==
  (cpc = "returned" /\ Len(made) \in 3..5) =>
    \A k \in 1..Len(made) :
       /\ 10 * (made[k][2] - made[k][1]) >= Scale
       /\ 100 * (made[k][2] - made[k][1]) <= 15 * Scale

C24_Witness ==
  /\ cpc = "returned"
  /\ Len(made) = 5
  /\ made[5][2] = Scale
  /\ made[5][1] + v_draw[5] > Scale

\* C30: the starts of a returned list increase strictly, and the start of
\* window i (counted from 0) of n lies in [i/n, i/n + 0.4/n]
C30_WindowsOrdered ==
  cpc = "returned" =>
    LET n == Len(made)
    IN /\ \A k \in 1..(n - 1) : made[k][1] < made[k + 1][1]
       /\ \A k \in 1..n :
            /\ n * made[k][1] >= (k - 1) * Scale
            /\ 10 * n * made[k][1] <= 10 * (k - 1) * Scale + 4 * Scale

\* two consecutive windows overlap
C30_Witness ==
  /\ cpc = "returned"
  /\ \E k \in 1..(Len(made) - 1) : made[k][2] > made[k + 1][1]

\* C25: no step of the scheduler changes the limit or the windows of any
\* action type of any account
C25_LimitsAndWindowsFixed ==
  [][limit' = limit /\ windows' = windows]_vars

\* a counted dispatch and the midnight clearing have both acted
C25_Witness ==
  /\ pc = "pause"
  /\ Hour(now) = 0 /\ Minute(now) < 10
  /\ \E a \in browser_instances :
       /\ \E t \in LedgerTypes : count[a][t] > 0
       /\ day_flags[a] = NoFlags
       /\ \E plan \in WindowPlans : windows[a] = plan
       /\ \E draw \in LimitDraws : \A t \in LedgerTypes : limit[a][t] = InitialLimitRange[t][draw[a]]

\* C26: a rollover step leaves every listed count of the account at 0, the
\* first time and when it is invoked again, and no count is ever negative
\* (the claim as stated; the code violates it).
C26_RolloverIdempotent ==
  /\ [][(pc = "pass_check" /\ elapsed_of(active_accounts[pass_i]) >= CYCLE_TIME)
          => \A t \in Range(PrimaryTypes) : count'[active_accounts[pass_i]][t] = 0]_vars
  /\ [](\A a \in Accounts : \A t \in LedgerTypes : count[a][t] >= 0)

\* C27: once a pair (account, action) is selected, the next step is the
\* dispatch of that pair: it writes at most the count and last_action of the
\* action's key of that account and leaves every cycle_start as it is; the
\* selected account passed the cycle test of the eligibility pass of the
\* same round, so the outcome is recorded in the cycle that was checked
C27_RecordedInCheckedCycle ==
  /\ [][pc = "dispatch" =>
          /\ pc' \in {"post_sweep", "closing"}
          /\ account' = account /\ action' = action
          /\ cycle_start' = cycle_start
          /\ \A a \in Accounts : \A t \in LedgerTypes :
               (a # account \/ t # LedgerKey(action)) =>
                 (count'[a][t] = count[a][t] /\ last_action'[a][t] = last_action[a][t])]_vars
  /\ [](pc = "dispatch" =>
          /\ account \in eligible_accounts
          /\ current_time - cycle_start[account] < CYCLE_TIME)

C27_Witness ==
  /\ pc = "post_sweep"
  /\ result = "true"
  /\ count[account][LedgerKey(action)] > 0
  /\ last_action[account][LedgerKey(action)] = current_time
  /\ current_time > cycle_start[account]
  /\ Cardinality(eligible_accounts) = 2

\* C28: tweet_analysis is selected for an account only while the flag of
\* the current day-part is not set, whichever loop built the candidate set
\* (the claim as stated; the code violates it).
C28_OncePerDayPart ==
  [][(pc = "select" /\ pc' = "dispatch" /\ action' = "tweet_analysis")
       => day_part_free(account', Hour(now))]_vars

\* C29: comment_likes is in the primary candidate set of no account in no
\* state, also while a window of comment_likes is open and its quota is
\* not spent; when it is selected, the primary set of the account is empty
C29_CommentLikesOnlyByFallback ==
  /\ [](\A a \in Accounts :
          "comment_likes" \notin primary_actions(a, now - cycle_start[a], Hour(now)))
  /\ [][(pc = "select" /\ pc' = "dispatch" /\ action' = "comment_likes") =>
          /\ primary_actions(account', now - cycle_start[account'], Hour(now)) = {}
          /\ "comment_likes" \in fallback_actions(account')]_vars

C29_Witness ==
  /\ pc = "dispatch"
  /\ action = "comment_likes"
  /\ primary_actions(account, cycle_elapsed, current_hour) = {}
  /\ \E a \in browser_instances :
       /\ a # account
       /\ count[a]["comment_likes"] < limit[a]["comment_likes"]

\* C20: when the account is found logged out and the login that follows
\* returns False, recover_from_session_error reports failure (the claim as
\* stated; the code violates it).
C20_RecoveryReportsFailedLogin ==
  (/\ wpc = "done"
   /\ entry = "recover"
   /\ ~is_logged_in
   /\ behaviour[1] = "false")
    => outcome = "false"

\* C1: in every reachable state, for every account and every action type of
\* its ledger, count <= limit, whatever the worker actions returned.
C1_CountWithinLimit ==
  \A a \in Accounts : \A t \in LedgerTypes : count[a][t] <= limit[a][t]

\* a dispatch has just succeeded and filled the quota of its action type
C1_Witness ==
  /\ pc = "post_sweep"
  /\ result = "true"
  /\ count[account][LedgerKey(action)] = limit[account][LedgerKey(action)]

\* C2: no two consecutive dispatched actions of an account are of the same
\* action type (the claim as stated; the code violates it).
C2_NoRepeatedAction ==
  pc = "dispatch" => action # prev_action[account]

\* C3: the timestamps of two consecutive recorded actions of an account
\* differ by at least min_action_gap (the claim as stated; the code
\* violates it through comment_likes).
C3_MinimumGap ==
  \A a \in Accounts : record_gap[a] = -1 \/ record_gap[a] >= min_action_gap

\* C4: when the pass finds an account's cycle elapsed, the rollover step
\* completes: every listed count is 0, the flags are cleared, cycle_start is
\* the current time and the pass goes on (the claim as stated; the code
\* violates it).
C4_RolloverCompletes ==
  [][(pc = "pass_check" /\ elapsed_of(active_accounts[pass_i]) >= CYCLE_TIME)
       => LET a == active_accounts[pass_i]
          IN /\ pc' \in {"pass_sweep", "select"}
             /\ \A t \in Range(PrimaryTypes) : count'[a][t] = 0
             /\ day_flags'[a] = NoFlags
             /\ ~unfollow_done'[a]
             /\ cycle_start'[a] = current_time]_vars

\* C5: the loop is left only when no account is active or on
\* KeyboardInterrupt (the claim as stated; the code violates it).
C5_LoopLeftOnlyOnShutdown ==
  exit_reason \in {"none", "no_active", "interrupt"}

\* C6: a count increases only in a step in which the worker capability
\* reported success (the claim as stated; the code violates it).
C6_CountOnlyOnSuccess ==
  [][(\E a \in Accounts : \E t \in LedgerTypes : count'[a][t] > count[a][t])
       => result' = "true"]_vars

\* C7 as stated: a dispatch that returned false or raised has set the
\* last_action of its action type to the dispatch time.
C7_FailureSetsLastAction ==
  (pc = "post_sweep" /\ result \in {"false", "raise"})
    => last_action[account][LedgerKey(action)] = current_time

\* C7 as amended: a dispatch that raises, or returns false for an action
\* other than strategy, leaves every last_action unchanged, and last_action
\* changes only together with an increment of the same count, to the
\* dispatch time.
C7_LastActionOnlyWithCount ==
  /\ [][(pc = "dispatch" /\ pc' = "post_sweep" /\ result' # "true" /\ action # "strategy")
          => last_action' = last_action]_vars
  /\ [][\A a \in Accounts : \A t \in LedgerTypes :
          last_action'[a][t] # last_action[a][t]
            => (count'[a][t] > count[a][t] /\ last_action'[a][t] = current_time)]_vars

\* a failed dispatch after which last_action is not the dispatch time
C7_Witness ==
  /\ pc = "post_sweep"
  /\ result \in {"false", "raise"}
  /\ action # "strategy"
  /\ last_action[account][LedgerKey(action)] # current_time

\* C8: an action type whose count has reached its limit is not selected,
\* neither through the primary nor through the fallback set.
C8_ExhaustedNeverSelected ==
  pc = "dispatch" =>
    count[account][LedgerKey(action)] < limit[account][LedgerKey(action)]

\* an action was selected for an account one of whose listed action types
\* is exhausted
C8_Witness ==
  /\ pc = "dispatch"
  /\ \E t \in Range(FallbackTypes) : count[account][t] = limit[account][t]

\* C9 as stated: within a cycle the sweep is invoked at most once.
C9_SweepAtMostOnce ==
  \A a \in Accounts : sweep_calls[a] <= 1

\* C9 as amended: once a sweep has returned true in a cycle, no further
\* sweep is invoked for the account in that cycle (a sweep that returns
\* false is invoked again).
C9_NoSweepAfterSuccess ==
  [][\A a \in Accounts :
       unfollow_done[a] => (sweep_calls'[a] = sweep_calls[a] /\ unfollow_done'[a])]_vars

\* the pass is at an account whose sweep succeeded in an earlier round, at a
\* cycle time at which the sweep would otherwise be invoked
C9_Witness ==
  /\ pc = "pass_check"
  /\ unfollow_done[active_accounts[pass_i]]
  /\ sweep_calls[active_accounts[pass_i]] >= 1
  /\ sweep_elapsed[active_accounts[pass_i]] < elapsed_of(active_accounts[pass_i])
  /\ elapsed_of(active_accounts[pass_i]) * 100 >= CYCLE_TIME * 95

\* C10 as stated: the sweep is invoked only from 0.95 of the cycle length.
C10_SweepOnlyFrom95 ==
  \A a \in Accounts : sweep_calls[a] > 0 => sweep_elapsed[a] * 100 >= 95 * CYCLE_TIME

\* C10 as amended: the sweep is invoked only from 0.933 of the cycle length.
C10_SweepOnlyFrom933 ==
  \A a \in Accounts : sweep_calls[a] > 0 => sweep_elapsed[a] * 1000 >= 933 * CYCLE_TIME

\* a sweep invoked before 0.95 of the cycle length
C10_Witness ==
  \E a \in Accounts : sweep_calls[a] > 0 /\ sweep_elapsed[a] * 100 < 95 * CYCLE_TIME

====
